---- MODULE Spec2Model ----
(***************************************************************************)
(* Model of scripts/check_bench_regression.py: the Criterion estimate      *)
(* loader, the comparator and main()'s report / exit-status policy.        *)
(*                                                                         *)
(* Conventions                                                             *)
(*  - A benchmark identity is a (group, case) directory pair under         *)
(*    <target>/criterion.  Ids numbers the pairs in the order in which     *)
(*    iterdir() yields them; non-directory entries are skipped by the      *)
(*    code (lines 76-77, 80-81) and are not part of the tree.  Because     *)
(*    Init ranges over every assignment of files to the pairs, every       *)
(*    traversal order of every content is covered.                         *)
(*  - A measurement file is described by the shape of the JSON value it    *)
(*    holds, as far as lines 87-91 inspect it.                             *)
(*  - A float is an exact rational or NaN; diff_pct is kept as the pair    *)
(*    num/den (den > 0) and compared by cross-multiplication.              *)
(*  - stdout and stderr are the sequences of messages written so far.      *)
(***************************************************************************)
EXTENDS Integers, Sequences, FiniteSets

\* Number of (group, case) directory pairs in the artifact tree.
MaxBench == 2
\* Largest point estimate (ns) occurring in a measurement file.
MaxNs == 2

Ids == 1..MaxBench

\* The pairs that hold files in the whole-program specification.
MainIds == {1, 2}

\* Run labels: args.baseline and args.current (defaults "main" and "pr").
Labels == {"main", "pr"}

\* --threshold values (percent).
Thresholds == {-100, 0, 50, 100}

VARIABLES
    criterion_exists,  \* Path(target_dir) / "criterion" exists
    tree,              \* [Labels -> [Ids -> File]]: group/case/<label>/estimates.json
    threshold,         \* args.threshold
    json_mode,         \* args.json
    strict,            \* args.strict
    pc,                \* position of main()
    baseline,          \* main(): baseline estimates dict
    current,           \* main(): current estimates dict
    regressions,       \* compare_benchmarks result lists
    improvements,
    unchanged,
    stdout,            \* messages written to standard output
    stderr,            \* messages written to standard error
    exit_status,       \* process exit status, NoExit while running
    loaded,            \* the run labels whose load has returned
    prev               \* outcome of the previous invocation on the same tree

vars == <<criterion_exists, tree, threshold, json_mode, strict, pc, baseline,
          current, regressions, improvements, unchanged, stdout, stderr,
          exit_status, loaded, prev>>

NoExit == -1

------------------------------------------------------------------------------
(* JSON values and measurement files *)

\* A value stored under mean.point_estimate, as Python sees it after json.load.
NumV(n) == [t |-> "num", v |-> n]
\* json.load accepts the literal NaN.
NaN == [t |-> "nan", v |-> 0]
\* A JSON string or null: not a number.
StrV == [t |-> "str", v |-> 0]
\* The key is not in the dict.
Missing == [t |-> "missing", v |-> 0]

Floats == {NumV(n) : n \in 0..MaxNs} \cup {NaN}
PointEstimates == Floats \cup {StrV}

\* The Python type of a parsed JSON value, as far as `in` and [] tell them
\* apart, is "scalar" (int, float, bool, None), "list", "str" or "dict".

\* exists:   estimates_file.exists()
\* valid:    json.load succeeds
\* data_t:   type of the top-level value
\* has_mean: "mean" in data (key of a dict, element of a list, substring of a str)
\* mean_t:   type of data["mean"]
\* has_pe:   "point_estimate" in data["mean"]
\* pe:       data["mean"]["point_estimate"]
MkFile(e, ok, dt, hm, mt, hp, p) ==
    [exists |-> e, valid |-> ok, data_t |-> dt, has_mean |-> hm,
     mean_t |-> mt, has_pe |-> hp, pe |-> p]

Absent == MkFile(FALSE, FALSE, "scalar", FALSE, "scalar", FALSE, Missing)
NotJson == MkFile(TRUE, FALSE, "scalar", FALSE, "scalar", FALSE, Missing)
\* A number, true, false or null at the top level.
JScalar == MkFile(TRUE, TRUE, "scalar", FALSE, "scalar", FALSE, Missing)
\* A list or string at the top level, with or without "mean" in it.
JOther(dt, hm) == MkFile(TRUE, TRUE, dt, hm, "scalar", FALSE, Missing)
\* An object without "mean".
JNoMean == MkFile(TRUE, TRUE, "dict", FALSE, "scalar", FALSE, Missing)
\* An object whose "mean" is a scalar, list or string, or an object without
\* "point_estimate".
JMean(mt, hp) == MkFile(TRUE, TRUE, "dict", TRUE, mt, hp, Missing)
\* {"mean": {"point_estimate": p, ...}, ...}
JEstimate(p) == MkFile(TRUE, TRUE, "dict", TRUE, "dict", TRUE, p)

Files ==
    {Absent, NotJson, JScalar, JNoMean}
    \cup {JOther(dt, hm) : dt \in {"list", "str"}, hm \in BOOLEAN}
    \cup {JMean("scalar", FALSE), JMean("dict", FALSE)}
    \cup {JMean(mt, hp) : mt \in {"list", "str"}, hp \in BOOLEAN}
    \cup {JEstimate(p) : p \in PointEstimates}

\* One file for each path through lines 84-93 and 105-126.
MainFiles ==
    {Absent, NotJson, JScalar, JNoMean} \cup {JEstimate(p) : p \in PointEstimates}

\* The file has the shape the loader expects: mean.point_estimate is there.
WellFormed(f) ==
    /\ f.exists /\ f.valid
    /\ f.data_t = "dict" /\ f.has_mean
    /\ f.mean_t = "dict" /\ f.has_pe

EmptyDict == [i \in Ids |-> Missing]
Keys(d) == {i \in Ids : d[i] # Missing}

------------------------------------------------------------------------------
(* load_benchmark_estimates *)

\* What lines 84-93 do with one estimates.json:
\*   "omit"   nothing is stored and nothing is printed
\*   "warn"   JSONDecodeError is caught: the warning of line 93
\*   "raise"  TypeError leaves the function (it is not in the except clause)
\*   "store"  estimates[key] = data["mean"]["point_estimate"]
LoadFile(f) ==
    IF ~f.exists THEN "omit"
    ELSE IF ~f.valid THEN "warn"
    ELSE IF f.data_t = "scalar" THEN "raise"       \* "mean" in 5
    ELSE IF ~f.has_mean THEN "omit"
    ELSE IF f.data_t # "dict" THEN "raise"         \* ["mean"]["mean"]
    ELSE IF f.mean_t = "scalar" THEN "raise"       \* "point_estimate" in 5
    ELSE IF ~f.has_pe THEN "omit"
    ELSE IF f.mean_t # "dict" THEN "raise"         \* "point_estimate"["point_estimate"]
    ELSE "store"

RECURSIVE LoadFrom(_, _, _)
LoadFrom(files, i, acc) ==
    IF i > MaxBench THEN acc
    ELSE LET step == LoadFile(files[i]) IN
         IF step = "raise" THEN [acc EXCEPT !.raised = TRUE]
         ELSE IF step = "warn"
              THEN LoadFrom(files, i + 1,
                            [acc EXCEPT !.warnings = Append(@, i)])
         ELSE IF step = "store"
              THEN LoadFrom(files, i + 1,
                            [acc EXCEPT !.estimates[i] = files[i].pe])
         ELSE LoadFrom(files, i + 1, acc)

\* The result of load_benchmark_estimates(criterion_dir, bench_name): the dict
\* built so far, the pairs warned about (in order), and whether an exception
\* left the function.
load_benchmark_estimates(t, bench_name) ==
    LoadFrom(t[bench_name], 1,
             [estimates |-> EmptyDict, warnings |-> <<>>, raised |-> FALSE])

------------------------------------------------------------------------------
(* compare_benchmarks *)

\* diff_pct = ((current_time - baseline_time) / baseline_time) * 100
DiffPct(b, c) ==
    IF b.t = "nan" \/ c.t = "nan"
    THEN [nan |-> TRUE, num |-> 0, den |-> 1]
    ELSE [nan |-> FALSE, num |-> (c.v - b.v) * 100, den |-> b.v]

\* diff_pct > x and diff_pct < x on floats: both false on NaN.
DiffGT(d, x) == ~d.nan /\ d.num > x * d.den
DiffLT(d, x) == ~d.nan /\ d.num < x * d.den

\* Classify with the boundary open: a diff_pct equal to the threshold counts as
\* a regression (>= for >, <= for <).
ClassifyInclusive(d, T) ==
    IF ~d.nan /\ d.num >= T * d.den THEN "regression"
    ELSE IF ~d.nan /\ d.num <= (-T) * d.den THEN "improvement"
    ELSE "unchanged"

\* Classify with the two tests in the other order: the improvement test first.
ClassifyImprovementFirst(d, T) ==
    IF DiffLT(d, -T) THEN "improvement"
    ELSE IF DiffGT(d, T) THEN "regression"
    ELSE "unchanged"

\* Lines 121-126.
Classify(d, T) ==
    IF DiffGT(d, T) THEN "regression"
    ELSE IF DiffLT(d, -T) THEN "improvement"
    ELSE "unchanged"

Result(i, b, c) ==
    [name |-> i, baseline_ns |-> b, current_ns |-> c, diff_pct |-> DiffPct(b, c)]

\* Compared without the baseline_time == 0 test of lines 109-110.
ComparedNoZeroTest(b, c, i) ==
    /\ c[i] # Missing
    /\ b[i] # Missing

\* Lines 105-110: the identity is compared.
Compared(b, c, i) ==
    /\ c[i] # Missing
    /\ b[i] # Missing
    /\ b[i] # NumV(0)

RECURSIVE CompareFrom(_, _, _, _, _)
CompareFrom(b, c, T, i, acc) ==
    IF i > MaxBench THEN acc
    ELSE IF ~Compared(b, c, i) THEN CompareFrom(b, c, T, i + 1, acc)
    ELSE IF b[i].t = "str" \/ c[i].t = "str"
         THEN [acc EXCEPT !.raised = TRUE]          \* TypeError at line 112
    ELSE LET r == Result(i, b[i], c[i])
             k == Classify(r.diff_pct, T)
         IN  CompareFrom(b, c, T, i + 1,
                 IF k = "regression"
                 THEN [acc EXCEPT !.regressions = Append(@, r)]
                 ELSE IF k = "improvement"
                 THEN [acc EXCEPT !.improvements = Append(@, r)]
                 ELSE [acc EXCEPT !.unchanged = Append(@, r)])

compare_benchmarks(b, c, T) ==
    CompareFrom(b, c, T, 1,
                [regressions |-> <<>>, improvements |-> <<>>,
                 unchanged |-> <<>>, raised |-> FALSE])

------------------------------------------------------------------------------
(* print_results and the messages of main *)

\* a["diff_pct"] < b["diff_pct"], for entries of regressions / improvements
\* (whose diff_pct is never NaN).
KeyLT(a, b) == a.diff_pct.num * b.diff_pct.den < b.diff_pct.num * a.diff_pct.den

RECURSIVE InsertDesc(_, _)
InsertDesc(s, r) ==
    IF s = <<>> THEN <<r>>
    ELSE IF KeyLT(Head(s), r) THEN <<r>> \o s
    ELSE <<Head(s)>> \o InsertDesc(Tail(s), r)

RECURSIVE InsertAsc(_, _)
InsertAsc(s, r) ==
    IF s = <<>> THEN <<r>>
    ELSE IF KeyLT(r, Head(s)) THEN <<r>> \o s
    ELSE <<Head(s)>> \o InsertAsc(Tail(s), r)

\* sorted(regressions, key=lambda x: x["diff_pct"], reverse=True): stable, so
\* entries with equal keys keep their order.
RECURSIVE SortDesc(_)
SortDesc(s) ==
    IF s = <<>> THEN <<>>
    ELSE InsertDesc(SortDesc(SubSeq(s, 1, Len(s) - 1)), s[Len(s)])

\* sorted(improvements, key=lambda x: x["diff_pct"])
RECURSIVE SortAsc(_)
SortAsc(s) ==
    IF s = <<>> THEN <<>>
    ELSE InsertAsc(SortAsc(SubSeq(s, 1, Len(s) - 1)), s[Len(s)])

\* One write to standard output.  kind is "json" (the record of lines
\* 204-211), "text" (the report of print_results) or "pass" (line 224, which
\* carries no data).
StdoutMsg(kind, T, regs, imps, n, has) ==
    [kind |-> kind, threshold |-> T, regressions |-> regs, improvements |-> imps,
     unchanged_count |-> n, has_regressions |-> has]

JsonRecord(regs, imps, unch, T) ==
    StdoutMsg("json", T, regs, imps, Len(unch), Len(regs) > 0)

\* print_results: the sections present, their entries in printed order, and
\* the summary counts.
print_results(regs, imps, unch, T) ==
    StdoutMsg("text", T, SortDesc(regs), SortAsc(imps), Len(unch), regs # <<>>)

PassLine == StdoutMsg("pass", 0, <<>>, <<>>, 0, FALSE)

\* One write to standard error.
Err(msg, arg) == [msg |-> msg, arg |-> arg]

\* Line 93, once for each pair the loader warned about.
RECURSIVE ParseWarnings(_)
ParseWarnings(w) ==
    IF w = <<>> THEN <<>>
    ELSE <<Err("could_not_parse", Head(w))>> \o ParseWarnings(Tail(w))

\* An exception nobody catches: the interpreter prints the traceback to
\* standard error and the process exits with status 1.
Traceback == Err("traceback", 0)

\* Lines 216-222: the message of a failing run.
FailMessage(regs, T, s) ==
    IF s THEN Err("fail_strict", 0) ELSE Err("fail_threshold", Len(regs))

\* VerdictStatus failing only under --strict.
VerdictStatusStrictOnly(regs, s) == IF regs # <<>> /\ s THEN 1 ELSE 0

\* Lines 216-225: the exit status once the report is printed.
VerdictStatus(regs, s) == IF regs # <<>> THEN 1 ELSE 0

------------------------------------------------------------------------------
(* main *)

NoPrev == [valid |-> FALSE, exit_status |-> NoExit, stdout |-> <<>>, stderr |-> <<>>]

\* The state main() starts from.
Fresh ==
    /\ baseline = EmptyDict
    /\ current = EmptyDict
    /\ regressions = <<>>
    /\ improvements = <<>>
    /\ unchanged = <<>>
    /\ stdout = <<>>
    /\ stderr = <<>>
    /\ exit_status = NoExit
    /\ loaded = {}

\* One invocation of the script without --strict on an artifact tree.
Init ==
    /\ criterion_exists \in BOOLEAN
    /\ tree \in [Labels -> [Ids -> MainFiles]]
    /\ \A l \in Labels : \A i \in Ids :
          (~criterion_exists \/ i \notin MainIds) => tree[l][i] = Absent
    /\ threshold \in Thresholds
    /\ json_mode \in BOOLEAN
    /\ strict = FALSE
    /\ pc = "start"
    /\ Fresh
    /\ prev = NoPrev

Exit(status) ==
    /\ exit_status' = status
    /\ pc' = "exited"

\* Lines 181-186.
FindCriterionDir ==
    /\ pc = "start"
    /\ IF ~criterion_exists
       THEN /\ stderr' = stderr \o <<Err("no_criterion_data", 0), Err("run_benchmarks_first", 0)>>
            /\ Exit(0)
       ELSE /\ pc' = "load_baseline"
            /\ UNCHANGED <<stderr, exit_status>>
    /\ UNCHANGED <<criterion_exists, tree, threshold, json_mode, strict, baseline,
                   current, regressions, improvements, unchanged, stdout, loaded, prev>>

\* Line 188.
LoadBaseline ==
    /\ pc = "load_baseline"
    /\ LET r == load_benchmark_estimates(tree, "main") IN
       IF r.raised
       THEN /\ stderr' = stderr \o ParseWarnings(r.warnings) \o <<Traceback>>
            /\ Exit(1)
            /\ UNCHANGED <<baseline, loaded>>
       ELSE /\ stderr' = stderr \o ParseWarnings(r.warnings)
            /\ baseline' = r.estimates
            /\ loaded' = loaded \cup {"main"}
            /\ pc' = "load_current"
            /\ UNCHANGED exit_status
    /\ UNCHANGED <<criterion_exists, tree, threshold, json_mode, strict,
                   current, regressions, improvements, unchanged, stdout, prev>>

\* Line 189.
LoadCurrent ==
    /\ pc = "load_current"
    /\ LET r == load_benchmark_estimates(tree, "pr") IN
       IF r.raised
       THEN /\ stderr' = stderr \o ParseWarnings(r.warnings) \o <<Traceback>>
            /\ Exit(1)
            /\ UNCHANGED <<current, loaded>>
       ELSE /\ stderr' = stderr \o ParseWarnings(r.warnings)
            /\ current' = r.estimates
            /\ loaded' = loaded \cup {"pr"}
            /\ pc' = "check_data"
            /\ UNCHANGED exit_status
    /\ UNCHANGED <<criterion_exists, tree, threshold, json_mode, strict,
                   baseline, regressions, improvements, unchanged, stdout, prev>>

\* Lines 191-197.
CheckData ==
    /\ pc = "check_data"
    /\ IF Keys(baseline) = {}
       THEN /\ stderr' = Append(stderr, Err("no_baseline_data", 0))
            /\ Exit(0)
       ELSE IF Keys(current) = {}
       THEN /\ stderr' = Append(stderr, Err("no_current_data", 0))
            /\ Exit(0)
       ELSE /\ pc' = "compare"
            /\ UNCHANGED <<stderr, exit_status>>
    /\ UNCHANGED <<criterion_exists, tree, threshold, json_mode, strict, baseline,
                   current, regressions, improvements, unchanged, stdout, loaded, prev>>

\* Lines 199-201.
Compare ==
    /\ pc = "compare"
    /\ LET r == compare_benchmarks(baseline, current, threshold) IN
       IF r.raised
       THEN /\ stderr' = Append(stderr, Traceback)
            /\ Exit(1)
            /\ UNCHANGED <<regressions, improvements, unchanged>>
       ELSE /\ regressions' = r.regressions
            /\ improvements' = r.improvements
            /\ unchanged' = r.unchanged
            /\ pc' = "report"
            /\ UNCHANGED <<stderr, exit_status>>
    /\ UNCHANGED <<criterion_exists, tree, threshold, json_mode, strict, baseline,
                   current, stdout, loaded, prev>>

\* Lines 203-213.
Report ==
    /\ pc = "report"
    /\ stdout' = Append(stdout,
                        IF json_mode
                        THEN JsonRecord(regressions, improvements, unchanged, threshold)
                        ELSE print_results(regressions, improvements, unchanged, threshold))
    /\ pc' = "verdict"
    /\ UNCHANGED <<criterion_exists, tree, threshold, json_mode, strict, baseline,
                   current, regressions, improvements, unchanged, stderr,
                   exit_status, loaded, prev>>

\* Lines 215-225.
Verdict ==
    /\ pc = "verdict"
    /\ IF regressions # <<>>
       THEN /\ stderr' = Append(stderr, FailMessage(regressions, threshold, strict))
            /\ UNCHANGED stdout
       ELSE /\ stdout' = Append(stdout, PassLine)
            /\ UNCHANGED stderr
    /\ Exit(VerdictStatus(regressions, strict))
    /\ UNCHANGED <<criterion_exists, tree, threshold, json_mode, strict, baseline,
                   current, regressions, improvements, unchanged, loaded, prev>>

\* The script is run again on the same tree with the same arguments except
\* that --strict is added (lines 55-59 and 179).
Reinvoke ==
    /\ pc = "exited"
    /\ ~prev.valid
    /\ prev' = [valid |-> TRUE, exit_status |-> exit_status, stdout |-> stdout,
                stderr |-> stderr]
    /\ strict' = ~strict
    /\ pc' = "start"
    /\ baseline' = EmptyDict
    /\ current' = EmptyDict
    /\ regressions' = <<>>
    /\ improvements' = <<>>
    /\ unchanged' = <<>>
    /\ stdout' = <<>>
    /\ stderr' = <<>>
    /\ exit_status' = NoExit
    /\ loaded' = {}
    /\ UNCHANGED <<criterion_exists, tree, threshold, json_mode>>

Next ==
    \/ FindCriterionDir
    \/ LoadBaseline
    \/ LoadCurrent
    \/ CheckData
    \/ Compare
    \/ Report
    \/ Verdict
    \/ Reinvoke

Spec == Init /\ [][Next]_vars

------------------------------------------------------------------------------
(* load_benchmark_estimates on its own: every tree of measurement files for  *)
(* one run label.                                                            *)

InitLoad ==
    /\ criterion_exists = TRUE
    /\ tree \in [Labels -> [Ids -> Files]]
    /\ \A i \in Ids : tree["pr"][i] = Absent
    /\ threshold = 50
    /\ json_mode = FALSE
    /\ strict = FALSE
    /\ pc = "load_baseline"
    /\ Fresh
    /\ prev = NoPrev

SpecLoad == InitLoad /\ [][LoadBaseline]_vars

(* compare_benchmarks on its own: every pair of estimate dicts and every     *)
(* threshold.                                                                *)

InitCompare ==
    /\ criterion_exists = TRUE
    /\ tree = [l \in Labels |-> [i \in Ids |-> Absent]]
    /\ threshold \in Thresholds
    /\ json_mode = FALSE
    /\ strict = FALSE
    /\ pc = "compare"
    /\ baseline \in [Ids -> PointEstimates \cup {Missing}]
    /\ current \in [Ids -> PointEstimates \cup {Missing}]
    /\ regressions = <<>>
    /\ improvements = <<>>
    /\ unchanged = <<>>
    /\ stdout = <<>>
    /\ stderr = <<>>
    /\ exit_status = NoExit
    /\ loaded = Labels
    /\ prev = NoPrev

SpecCompare == InitCompare /\ [][Compare]_vars

------------------------------------------------------------------------------
(* Properties *)

Range(s) == {s[k] : k \in DOMAIN s}
Names(s) == {s[k].name : k \in DOMAIN s}
Classified == regressions \o improvements \o unchanged

\* diff_pct is exactly x.
DiffEQ(d, x) == ~d.nan /\ d.num = x * d.den

\* The run is a no-op: no criterion directory, or a load returned an empty dict.
NoOp ==
    \/ ~criterion_exists
    \/ "main" \in loaded /\ Keys(baseline) = {}
    \/ "pr" \in loaded /\ Keys(current) = {}

\* C1: the exit status is 1 exactly when regressions is non-empty, and 0 in
\* every other case.
C1_ExitOneIffRegressions ==
    pc = "exited" =>
        /\ exit_status \in {0, 1}
        /\ exit_status = 1 <=> regressions # <<>>

\* C2: for a threshold T >= 0 every classified identity is in regressions iff
\* diff_pct > T, in improvements iff diff_pct < -T and in unchanged otherwise,
\* with diff_pct = (current - baseline) / baseline * 100; a diff_pct equal to
\* T or to -T is unchanged.
C2_ThresholdClassification ==
    (pc = "report" /\ threshold >= 0) =>
        \A r \in Range(Classified) :
            /\ r.baseline_ns = baseline[r.name]
            /\ r.current_ns = current[r.name]
            /\ r.diff_pct.nan <=> NaN \in {r.baseline_ns, r.current_ns}
            /\ ~r.diff_pct.nan =>
                  r.diff_pct.num * r.baseline_ns.v =
                      (r.current_ns.v - r.baseline_ns.v) * 100 * r.diff_pct.den
            /\ r \in Range(regressions) <=> DiffGT(r.diff_pct, threshold)
            /\ r \in Range(improvements) <=> DiffLT(r.diff_pct, -threshold)
            /\ r \in Range(unchanged) <=>
                  ~DiffGT(r.diff_pct, threshold) /\ ~DiffLT(r.diff_pct, -threshold)
            /\ (DiffEQ(r.diff_pct, threshold) \/ DiffEQ(r.diff_pct, -threshold))
                  => r \in Range(unchanged)

\* A positive threshold with one entry exactly at +T and one exactly at -T,
\* both unchanged.
C2_Witness ==
    /\ pc = "report"
    /\ threshold > 0
    /\ \E r \in Range(unchanged) : DiffEQ(r.diff_pct, threshold)
    /\ \E r \in Range(unchanged) : DiffEQ(r.diff_pct, -threshold)

\* C3: the identities in the three lists are exactly those in both dicts whose
\* baseline is not 0; none is listed twice or in two lists.
C3_IdentitySet ==
    pc = "report" =>
        /\ Names(Classified) =
              (Keys(baseline) \cap Keys(current)) \ {i \in Ids : baseline[i] = NumV(0)}
        /\ Len(Classified) = Cardinality(Names(Classified))

\* One identity with baseline 0 in both runs and one that is compared.
C3_Witness ==
    /\ pc = "report"
    /\ \E i \in Ids : baseline[i] = NumV(0) /\ current[i] # Missing
    /\ \E i \in Ids : i \in Names(Classified)

\* C4: in a no-op run the exit status is 0, a diagnostic is on stderr, nothing
\* was compared and nothing is on stdout.
C4_NoOpSilentSuccess ==
    (pc = "exited" /\ NoOp) =>
        /\ exit_status = 0
        /\ stderr # <<>>
        /\ stdout = <<>>
        /\ Classified = <<>>

C6_StrictFailsOnAnySlowdown ==
    (/\ pc = "exited"
     /\ strict
     /\ loaded = Labels
     /\ \E i \in Ids :
           /\ baseline[i].t = "num" /\ current[i].t = "num"
           /\ baseline[i].v # 0
           /\ current[i].v > baseline[i].v)
    => exit_status = 1

\* C7: the loader returns whatever the files hold, and the dict it returns
\* has exactly the well-formed pairs, each with its mean.point_estimate.
C7_LoaderNeverAborts ==
    pc # "load_baseline" =>
        /\ pc = "load_current"
        /\ \A i \in Ids :
              baseline[i] = IF WellFormed(tree["main"][i])
                            THEN tree["main"][i].pe ELSE Missing

\* C8: when the loader returns, stderr has a warning for every measurement
\* file that exists and is malformed, none for an absent file, and stdout is
\* untouched.
C8_WarningForEveryMalformedFile ==
    pc = "load_current" =>
        /\ \A i \in Ids :
              LET f == tree["main"][i] IN
              /\ (f.exists /\ ~WellFormed(f))
                    => Err("could_not_parse", i) \in Range(stderr)
              /\ ~f.exists => Err("could_not_parse", i) \notin Range(stderr)
        /\ stdout = <<>>

\* C9: in JSON mode a run that reached the comparison leaves exactly one
\* structured record on stdout and nothing else.
C9_JsonStdoutIsOneRecord ==
    (pc = "exited" /\ json_mode /\ stdout # <<>>) =>
        stdout = <<JsonRecord(regressions, improvements, unchanged, threshold)>>

\* C10 as stated: with a negative threshold nothing is unchanged; every
\* compared identity with diff_pct > T is a regression and every other one an
\* improvement.
C10_NegativeThresholdAsStated ==
    (pc = "report" /\ threshold < 0) =>
        /\ unchanged = <<>>
        /\ \A r \in Range(Classified) :
              IF DiffGT(r.diff_pct, threshold)
              THEN r \in Range(regressions)
              ELSE r \in Range(improvements)

\* C10 as amended: with a negative threshold every compared identity whose
\* diff_pct is a number is a regression if diff_pct > T and an improvement
\* otherwise; an identity whose diff_pct is NaN is unchanged; the lists are
\* pairwise disjoint.
C10_NegativeThreshold ==
    (pc = "report" /\ threshold < 0) =>
        /\ \A r \in Range(Classified) :
              IF r.diff_pct.nan THEN r \in Range(unchanged)
              ELSE IF DiffGT(r.diff_pct, threshold) THEN r \in Range(regressions)
              ELSE r \in Range(improvements)
        /\ \A r \in Range(unchanged) : r.diff_pct.nan
        /\ Range(regressions) \cap Range(improvements) = {}
        /\ Range(regressions) \cap Range(unchanged) = {}
        /\ Range(improvements) \cap Range(unchanged) = {}
        /\ Len(Classified) = Cardinality(Names(Classified))

\* A benchmark that got faster by less than |T| percent is a regression, and
\* one at diff_pct = T is an improvement.
C10_Witness ==
    /\ pc = "report"
    /\ threshold < 0
    /\ \E r \in Range(regressions) :
          r.diff_pct.num < 0 /\ DiffLT(r.diff_pct, -threshold)
    /\ \E r \in Range(improvements) : DiffEQ(r.diff_pct, threshold)

====
